---- MODULE Spec2Model ----
(***************************************************************************)
(* Model of github.com/Galdoba/gogacon: ConfigManager (manager.go),        *)
(* ConfigError (errors.go) and the Serializer interface (serializer.go),   *)
(* over an explicit file system.                                           *)
(*                                                                         *)
(* A path is the sequence of its components; an absolute path starts with  *)
(* the component "/", the empty sequence is the empty string "", and       *)
(* <<".">> is the working directory.  A byte slice is a sequence of byte   *)
(* values.  A Go error is a record: NoError is nil, kind "error" is a      *)
(* plain error (fmt.Errorf, or an error of the os package) whose message   *)
(* is Err, kind "ConfigError" is the struct of errors.go with Err the      *)
(* message of the wrapped cause.                                           *)
(***************************************************************************)
EXTENDS Integers, Sequences, FiniteSets, TLC

\* Longest byte slice a serializer returns or a file initially holds.
MaxLen == 2

\* Number of ConfigManager instances of the process.
NumManagers == 1

\* The properties compare contents only for equality, so one byte value is
\* enough: byte slices differ by their length.
ByteVals == {0}

Bytes == UNION {[1..n -> ByteVals] : n \in 0..MaxLen}

Managers == 1..NumManagers

-----------------------------------------------------------------------------
(* Paths *)

EmptyPath == <<>>
RootDir == <<"/">>
WorkDir == <<".">>
HomeDir == <<"/", "home">>
ConfigRoot == HomeDir \o <<".config">>
TestApp == "testapp"
CustomPath == HomeDir \o <<"custom.conf">>

\* filepath.Dir: all but the last element of the path; "." for the empty path.
Dir(path) ==
    IF path = EmptyPath THEN WorkDir
    ELSE IF Len(path) = 1 THEN path
    ELSE SubSeq(path, 1, Len(path) - 1)

\* filepath.Join of a clean absolute directory and further elements.
Join(dir, elems) == dir \o elems

RECURSIVE JoinNames(_)
JoinNames(names) ==
    IF names = <<>> THEN ""
    ELSE IF Len(names) = 1 THEN names[1]
    ELSE names[1] \o "/" \o JoinNames(Tail(names))

\* The string a path stands for.
PathString(path) ==
    IF path = EmptyPath THEN ""
    ELSE IF path[1] = "/" THEN "/" \o JoinNames(Tail(path))
    ELSE JoinNames(path)

-----------------------------------------------------------------------------
(* Errors *)

NoError == [kind |-> "nil", Operation |-> "", Path |-> EmptyPath, Err |-> ""]

\* fmt.Errorf(msg), errors.New(msg)
Errorf(msg) == [kind |-> "error", Operation |-> "", Path |-> EmptyPath, Err |-> msg]

\* An error of the os package: &PathError{Op, Path, Err}.
PathError(op, path, errno) == Errorf(op \o " " \o PathString(path) \o ": " \o errno)

NewError(operation, path, err) ==
    [kind |-> "ConfigError", Operation |-> operation, Path |-> path, Err |-> err.Err]

\* fmt's %q of a path string free of characters that need escaping.
Quote(s) == "\"" \o s \o "\""

\* ConfigError.Error
ConfigErrorError(e) ==
    IF e.Path # EmptyPath
    THEN "config error: " \o e.Operation \o ": " \o e.Err
    ELSE "config error: " \o e.Operation \o " " \o Quote(PathString(e.Path)) \o ": " \o e.Err

\* err.Error() of any non-nil error.
ErrorString(e) == IF e.kind = "ConfigError" THEN ConfigErrorError(e) ELSE e.Err

\* ConfigError.Unwrap: the message of the wrapped cause.
Unwrap(e) == e.Err

-----------------------------------------------------------------------------
(* File system: a function from the existing paths to their entries. *)

DirEntry(w) == [kind |-> "dir", data |-> <<>>, r |-> TRUE, w |-> w]
FileEntry(data, r, w) == [kind |-> "file", data |-> data, r |-> r, w |-> w]

Exists(fs, path) == path \in DOMAIN fs
IsDir(fs, path) == Exists(fs, path) /\ fs[path].kind = "dir"
IsFile(fs, path) == Exists(fs, path) /\ fs[path].kind = "file"

Put(fs, path, entry) ==
    [q \in DOMAIN fs \cup {path} |-> IF q = path THEN entry ELSE fs[q]]

\* os.Stat: nil exactly when an entry exists at the path.
Stat(fs, path) ==
    IF Exists(fs, path) THEN NoError
    ELSE IF IsFile(fs, Dir(path)) THEN PathError("stat", path, "not a directory")
    ELSE PathError("stat", path, "no such file or directory")

\* os.Mkdir: one directory, in an existing parent that permits new entries.
Mkdir(fs, path) ==
    LET parent == Dir(path) IN
    IF Exists(fs, path)
    THEN [fs |-> fs, err |-> PathError("mkdir", path, "file exists")]
    ELSE IF ~Exists(fs, parent)
    THEN [fs |-> fs, err |-> PathError("mkdir", path, "no such file or directory")]
    ELSE IF ~IsDir(fs, parent)
    THEN [fs |-> fs, err |-> PathError("mkdir", path, "not a directory")]
    ELSE IF ~fs[parent].w
    THEN [fs |-> fs, err |-> PathError("mkdir", path, "permission denied")]
    ELSE [fs |-> Put(fs, path, DirEntry(TRUE)), err |-> NoError]

\* os.MkdirAll: nil at once for an existing directory, an error for an
\* existing file; otherwise the parents first, then the directory itself.
RECURSIVE MkdirAll(_, _)
MkdirAll(fs, path) ==
    IF Exists(fs, path)
    THEN IF IsDir(fs, path)
         THEN [fs |-> fs, err |-> NoError]
         ELSE [fs |-> fs, err |-> PathError("mkdir", path, "not a directory")]
    ELSE LET parent == Dir(path)
             up == IF parent # path
                   THEN MkdirAll(fs, parent)
                   ELSE [fs |-> fs, err |-> NoError]
         IN  IF up.err # NoError THEN up ELSE Mkdir(up.fs, path)

\* Faulty variant of WriteFile: the file is opened with O_EXCL, so that an
\* existing file is never written.
WriteFileExclusive(fs, path, data) ==
    LET parent == Dir(path) IN
    IF path = EmptyPath
    THEN [fs |-> fs, err |-> PathError("open", path, "no such file or directory")]
    ELSE IF Exists(fs, path)
    THEN [fs |-> fs, err |-> PathError("open", path, "file exists")]
    ELSE IF ~Exists(fs, parent)
    THEN [fs |-> fs, err |-> PathError("open", path, "no such file or directory")]
    ELSE IF ~IsDir(fs, parent)
    THEN [fs |-> fs, err |-> PathError("open", path, "not a directory")]
    ELSE IF ~fs[parent].w
    THEN [fs |-> fs, err |-> PathError("open", path, "permission denied")]
    ELSE [fs |-> Put(fs, path, FileEntry(data, TRUE, TRUE)), err |-> NoError]

\* os.WriteFile(path, data, 0644): create or truncate, then write data.
WriteFile(fs, path, data) ==
    LET parent == Dir(path) IN
    IF path = EmptyPath
    THEN [fs |-> fs, err |-> PathError("open", path, "no such file or directory")]
    ELSE IF IsDir(fs, path)
    THEN [fs |-> fs, err |-> PathError("open", path, "is a directory")]
    ELSE IF IsFile(fs, path)
    THEN IF fs[path].w
         THEN [fs |-> Put(fs, path, FileEntry(data, fs[path].r, TRUE)), err |-> NoError]
         ELSE [fs |-> fs, err |-> PathError("open", path, "permission denied")]
    ELSE IF ~Exists(fs, parent)
    THEN [fs |-> fs, err |-> PathError("open", path, "no such file or directory")]
    ELSE IF ~IsDir(fs, parent)
    THEN [fs |-> fs, err |-> PathError("open", path, "not a directory")]
    ELSE IF ~fs[parent].w
    THEN [fs |-> fs, err |-> PathError("open", path, "permission denied")]
    ELSE [fs |-> Put(fs, path, FileEntry(data, TRUE, TRUE)), err |-> NoError]

\* os.ReadFile: the whole content of a readable regular file.
ReadFile(fs, path) ==
    IF ~Exists(fs, path)
    THEN [data |-> <<>>, err |-> PathError("open", path, "no such file or directory")]
    ELSE IF IsDir(fs, path)
    THEN [data |-> <<>>, err |-> PathError("read", path, "is a directory")]
    ELSE IF ~fs[path].r
    THEN [data |-> <<>>, err |-> PathError("open", path, "permission denied")]
    ELSE [data |-> fs[path].data, err |-> NoError]

-----------------------------------------------------------------------------
(* Serializer (serializer.go): an interface the caller implements.  What a *)
(* call returns is the implementation's choice, drawn anew at every call.  *)

NilSerializer == "nil"
DefaultValues == "defaults"

Causes == {"parse error"}

\* What Marshal() may return: bytes and a nil error, or an error.
MarshalOutcomes ==
    [data : Bytes, err : {NoError}] \cup [data : {<<>>}, err : {Errorf(c) : c \in Causes}]

\* What Unmarshal(data) may return.
UnmarshalOutcomes == {NoError} \cup {Errorf(c) : c \in Causes}

-----------------------------------------------------------------------------
(* ConfigManager (manager.go) *)

AppNames == {"", TestApp, "other"}

\* The Defaults values NewConfigManager is called with.
DefaultsValues == [AppName : AppNames, DefaultConfigValues : {NilSerializer, DefaultValues}]

\* A nil *ConfigManager.
NilManager ==
    [ptr |-> "nil",
     defaults |-> [AppName |-> "", DefaultConfigValues |-> NilSerializer],
     filePath |-> EmptyPath]

\* &ConfigManager{defaults: d}
ConfigManager(d) == [ptr |-> "cm", defaults |-> d, filePath |-> EmptyPath]

\* Faulty variant of NewConfigManager: the failures are plain errors.
NewConfigManagerPlain(d) ==
    IF d.AppName = ""
    THEN [cm |-> NilManager, err |-> Errorf("AppName must be specified")]
    ELSE IF d.DefaultConfigValues = NilSerializer
    THEN [cm |-> NilManager, err |-> Errorf("DefaultConfigValues must be specified")]
    ELSE [cm |-> ConfigManager(d), err |-> NoError]

NewConfigManager(d) ==
    IF d.AppName = ""
    THEN [cm |-> NilManager,
          err |-> NewError("initialization", EmptyPath, Errorf("AppName must be specified"))]
    ELSE IF d.DefaultConfigValues = NilSerializer
    THEN [cm |-> NilManager,
          err |-> NewError("initialization", EmptyPath,
                           Errorf("DefaultConfigValues must be specified"))]
    ELSE [cm |-> ConfigManager(d), err |-> NoError]

\* os.UserHomeDir: $HOME of the process.
UserHomeDir == [path |-> HomeDir, err |-> NoError]

\* buildPath: <home>/.config/<AppName>/default.conf
buildPath(cm) ==
    LET home == UserHomeDir IN
    IF home.err # NoError
    THEN [path |-> EmptyPath, err |-> home.err]
    ELSE [path |-> Join(home.path, <<".config", cm.defaults.AppName, "default.conf">>),
          err |-> NoError]

\* What a call of ensureConfigFile or LoadConfig reports besides the file
\* system: err is the error returned, marshalled the returns of the calls made
\* of the defaults' Marshal, in order.
Ensured(fs, err, marshalled) == [fs |-> fs, err |-> err, marshalled |-> marshalled]

\* Faulty variant of createDefaultConfig: the file is written without the data.
createDefaultConfigNoData(fs, cm, path, mo) ==
    LET dir == Dir(path)
        made == MkdirAll(fs, dir)
    IN  IF made.err # NoError
        THEN Ensured(made.fs, NewError("create config directory", dir, made.err), <<>>)
        ELSE IF mo.err # NoError
        THEN Ensured(made.fs, NewError("marshal default config", path, mo.err), <<mo>>)
        ELSE LET written == WriteFile(made.fs, path, <<>>) IN
             IF written.err # NoError
             THEN Ensured(written.fs, NewError("create default config", path, written.err),
                          <<mo>>)
             ELSE Ensured(written.fs, NoError, <<mo>>)

\* Faulty variant of createDefaultConfig: the file is created, empty, before
\* the defaults' Marshal is called.
createDefaultConfigTouchesFirst(fs, cm, path, mo) ==
    LET dir == Dir(path)
        made == MkdirAll(fs, dir)
    IN  IF made.err # NoError
        THEN Ensured(made.fs, NewError("create config directory", dir, made.err), <<>>)
        ELSE LET touched == WriteFile(made.fs, path, <<>>) IN
             IF touched.err # NoError
             THEN Ensured(touched.fs, NewError("create default config", path, touched.err),
                          <<>>)
             ELSE IF mo.err # NoError
             THEN Ensured(touched.fs, NewError("marshal default config", path, mo.err),
                          <<mo>>)
             ELSE Ensured(WriteFile(touched.fs, path, mo.data).fs, NoError, <<mo>>)

\* ensureConfigFile once os.Stat has failed: the directories, the defaults'
\* Marshal (which returns mo), the file.
createDefaultConfig(fs, cm, path, mo) ==
    LET dir == Dir(path)
        made == MkdirAll(fs, dir)
    IN  IF made.err # NoError
        THEN Ensured(made.fs, NewError("create config directory", dir, made.err), <<>>)
        ELSE IF mo.err # NoError
        THEN Ensured(made.fs, NewError("marshal default config", path, mo.err), <<mo>>)
        ELSE LET written == WriteFile(made.fs, path, mo.data) IN
             IF written.err # NoError
             THEN Ensured(written.fs, NewError("create default config", path, written.err),
                          <<mo>>)
             ELSE Ensured(written.fs, NoError, <<mo>>)

\* Faulty variant of ensureConfigFile: no os.Stat, the file is always created.
ensureConfigFileAlways(fs, cm, path, mo) == createDefaultConfig(fs, cm, path, mo)

\* ensureConfigFile(path); mo is what the defaults' Marshal returns if called.
ensureConfigFile(fs, cm, path, mo) ==
    IF Stat(fs, path) = NoError
    THEN Ensured(fs, NoError, <<>>)
    ELSE createDefaultConfig(fs, cm, path, mo)

\* What a call of LoadConfig reports: the manager as the call leaves it, and
\* unmarshalled, the calls made of the target's Unmarshal, in order: argument
\* and return.
Loaded(ens, cm, err, unmarshalled) ==
    [fs |-> ens.fs, cm |-> cm, err |-> err, marshalled |-> ens.marshalled,
     unmarshalled |-> unmarshalled]

\* Faulty variant of readAndDecode: the path is remembered before the read.
readAndDecodeRecordsEarly(cm, filePath, ens, uo) ==
    IF ens.err # NoError
    THEN Loaded(ens, cm, ens.err, <<>>)
    ELSE
    LET bt == ReadFile(ens.fs, filePath)
        set == [cm EXCEPT !.filePath = filePath]
    IN  IF bt.err # NoError
        THEN Loaded(ens, set, NewError("read config", filePath, bt.err), <<>>)
        ELSE IF uo # NoError
        THEN Loaded(ens, set, NewError("unmarshal config", filePath, uo),
                    <<[data |-> bt.data, err |-> uo]>>)
        ELSE Loaded(ens, set, NoError, <<[data |-> bt.data, err |-> uo]>>)

\* LoadConfig from the return of ensureConfigFile (ens) on: the read, the
\* target's Unmarshal (which returns uo), the path remembered.
readAndDecode(cm, filePath, ens, uo) ==
    IF ens.err # NoError
    THEN Loaded(ens, cm, ens.err, <<>>)
    ELSE
    LET bt == ReadFile(ens.fs, filePath) IN
    IF bt.err # NoError
    THEN Loaded(ens, cm, NewError("read config", filePath, bt.err), <<>>)
    ELSE IF uo # NoError
    THEN Loaded(ens, cm, NewError("unmarshal config", filePath, uo),
                <<[data |-> bt.data, err |-> uo]>>)
    ELSE Loaded(ens, [cm EXCEPT !.filePath = filePath], NoError,
                <<[data |-> bt.data, err |-> uo]>>)

\* Faulty variant of LoadConfig: an empty path stands for buildPath().
LoadConfigDefaultPath(fs, cm, filePath, mo, uo) ==
    LET path == IF filePath = EmptyPath THEN buildPath(cm).path ELSE filePath IN
    readAndDecode(cm, path, ensureConfigFile(fs, cm, path, mo), uo)

\* Faulty variant of LoadConfig: it is the default file that is ensured.
LoadConfigEnsuresDefault(fs, cm, filePath, mo, uo) ==
    IF filePath = EmptyPath
    THEN Loaded(Ensured(fs, NoError, <<>>), cm, Errorf("no path provided"), <<>>)
    ELSE readAndDecode(cm, filePath, ensureConfigFile(fs, cm, buildPath(cm).path, mo), uo)

\* LoadConfig(filePath, target)
LoadConfig(fs, cm, filePath, mo, uo) ==
    IF filePath = EmptyPath
    THEN Loaded(Ensured(fs, NoError, <<>>), cm, Errorf("no path provided"), <<>>)
    ELSE readAndDecode(cm, filePath, ensureConfigFile(fs, cm, filePath, mo), uo)

\* What a call of SaveConfig reports: written, the os.WriteFile calls made,
\* in order: path and data.
Saved(fs, err, written) == [fs |-> fs, err |-> err, written |-> written]

\* Faulty variant of SaveConfig: the write goes to buildPath().
SaveConfigDefaultPath(fs, cm, mo) ==
    IF mo.err # NoError
    THEN Saved(fs, NewError("marshal config", EmptyPath, mo.err), <<>>)
    ELSE LET path == buildPath(cm).path
             w == WriteFile(fs, path, mo.data)
         IN  IF w.err # NoError
             THEN Saved(w.fs, NewError("save config", path, w.err),
                        <<[path |-> path, data |-> mo.data]>>)
             ELSE Saved(w.fs, NoError, <<[path |-> path, data |-> mo.data]>>)

\* Faulty variant of SaveConfig: the file is truncated before Marshal is called.
SaveConfigTruncatesFirst(fs, cm, mo) ==
    LET t == WriteFile(fs, cm.filePath, <<>>) IN
    IF mo.err # NoError
    THEN Saved(t.fs, NewError("marshal config", EmptyPath, mo.err), <<>>)
    ELSE LET w == WriteFile(t.fs, cm.filePath, mo.data) IN
         IF w.err # NoError
         THEN Saved(w.fs, NewError("save config", cm.filePath, w.err),
                    <<[path |-> cm.filePath, data |-> mo.data]>>)
         ELSE Saved(w.fs, NoError, <<[path |-> cm.filePath, data |-> mo.data]>>)

\* SaveConfig(config); mo is what config.Marshal returns.
SaveConfig(fs, cm, mo) ==
    IF mo.err # NoError
    THEN Saved(fs, NewError("marshal config", EmptyPath, mo.err), <<>>)
    ELSE LET w == WriteFile(fs, cm.filePath, mo.data) IN
         IF w.err # NoError
         THEN Saved(w.fs, NewError("save config", cm.filePath, w.err),
                    <<[path |-> cm.filePath, data |-> mo.data]>>)
         ELSE Saved(w.fs, NoError, <<[path |-> cm.filePath, data |-> mo.data]>>)

-----------------------------------------------------------------------------
(* The process: its file system, its managers, and the last call made. *)

VARIABLES
    fs,      \* the file system
    cm,      \* cm[m]: the manager held by caller m, NilManager before it is built
    call,    \* the last call: its arguments, what it returned (ret) and the calls
             \* it made: marshalled, the returns of Marshal (of the defaults in
             \* LoadConfig and ensureConfigFile, of the config in SaveConfig);
             \* unmarshalled, the target's Unmarshal calls; written, SaveConfig's
             \* os.WriteFile calls
    loaded,  \* loaded[m]: the path of m's most recent LoadConfig that returned nil
    creation, \* creation[p]: how far the process's LoadConfig calls have taken the
             \* creation of the default file at p: "never" begun, "failed"
             \* part-way, or "done" (os.WriteFile returned nil)
    proc,    \* proc[m]: where the call that m is making has got to, statement by
             \* statement (SpecSteps), or the call m made last
    hist     \* the writes of files made statement by statement: the managers
             \* that have written a default file, the last write, and whether a
             \* default file has replaced what another manager's SaveConfig wrote

vars == <<fs, cm, call, loaded, creation, proc, hist>>

DefaultPath == Join(ConfigRoot, <<TestApp, "default.conf">>)
AppDir == Dir(DefaultPath)

\* The paths LoadConfig and ensureConfigFile are called with: none, the
\* default file, its directory, and a custom file.
CallPaths == {EmptyPath, DefaultPath, AppDir, CustomPath}

Tree(entries) == [q \in {e[1] : e \in entries} |-> (CHOOSE e \in entries : e[1] = q)[2]]

BaseTree == {<<RootDir, DirEntry(TRUE)>>, <<WorkDir, DirEntry(TRUE)>>, <<HomeDir, DirEntry(TRUE)>>}

\* What the tests set up under $HOME/.config before the first call: nothing,
\* the directories (writable or 0555), or the default file itself (with any
\* content, or unreadable, or read-only).
ConfigTrees ==
    {{}}
    \cup {{<<ConfigRoot, DirEntry(w)>>} : w \in BOOLEAN}
    \cup {{<<ConfigRoot, DirEntry(TRUE)>>, <<AppDir, DirEntry(w)>>} : w \in BOOLEAN}
    \cup {{<<ConfigRoot, DirEntry(TRUE)>>, <<AppDir, DirEntry(TRUE)>>,
           <<DefaultPath, f>>} :
             f \in {FileEntry(data, TRUE, TRUE) : data \in Bytes}
                   \cup {FileEntry(<<>>, FALSE, TRUE), FileEntry(<<>>, TRUE, FALSE)}}

\* A custom file beside it, or none.
CustomTrees == {{}, {<<CustomPath, FileEntry(<<>>, TRUE, TRUE)>>}}

InitialFileSystems == {Tree(BaseTree \cup c \cup u) : c \in ConfigTrees, u \in CustomTrees}

NoCall ==
    [op |-> "none", mgr |-> 0, path |-> EmptyPath, d |-> NilManager.defaults,
     ret |-> NoError, marshalled |-> <<>>, unmarshalled |-> <<>>, written |-> <<>>,
     again |-> "no"]

\* Two callers that hold a manager each and work on the same paths.
Pair == {1, 2}

\* A caller that is in no call and has made none: pc is the statement it is
\* at, steps the statements its call has executed, data the bytes the call
\* holds (data in ensureConfigFile, bt in LoadConfig and SaveConfig), ret
\* what the call returned.
Idle ==
    [pc |-> "idle", op |-> "none", path |-> EmptyPath, data |-> <<>>, steps |-> <<>>,
     ret |-> NoError]

NoWrites ==
    [defaults |-> {}, last |-> [mgr |-> 0, op |-> "none", path |-> EmptyPath],
     lost |-> FALSE]

\* The callers of the process: Spec, SpecEnsure and SpecRetry let those of
\* Managers act, SpecLoads and SpecPair those of Pair.
AllManagers == Managers \cup Pair

Init ==
    /\ fs \in InitialFileSystems
    /\ cm = [m \in AllManagers |-> NilManager]
    /\ call = NoCall
    /\ loaded = [m \in AllManagers |-> EmptyPath]
    /\ creation = [p \in CallPaths \ {EmptyPath} |-> "never"]
    /\ proc = [m \in AllManagers |-> Idle]
    /\ hist = NoWrites

\* The failures of ensureConfigFile that come after os.MkdirAll has returned nil.
FailedCreate == {"marshal default config", "create default config"}

\* Whether the call about to be made repeats the last one (same method,
\* manager and path), and how that one ended: with nil, having called Marshal
\* or not, or with a failure of FailedCreate; or whether it is a LoadConfig
\* of the path the last call, a SaveConfig, has written.
Again(op, m, path) ==
    IF op = "LoadConfig" /\ call.op = "SaveConfig" /\ call.path = path
       /\ call.ret = NoError
    THEN "after SaveConfig"
    ELSE IF call.op = op /\ call.mgr = m /\ call.path = path
    THEN IF call.ret = NoError
         THEN IF call.marshalled # <<>> THEN "after Marshal" ELSE "after no Marshal"
         ELSE IF call.ret.Operation \in FailedCreate
         THEN "after " \o call.ret.Operation
         ELSE "no"
    ELSE "no"

\* m calls NewConfigManager(d) and keeps the manager returned.
New(m, d) ==
    /\ cm[m] = NilManager
    /\ \E r \in {NewConfigManager(d)} :
       /\ cm' = [cm EXCEPT ![m] = r.cm]
       /\ call' = [NoCall EXCEPT !.op = "NewConfigManager", !.mgr = m, !.d = d,
                                 !.ret = r.err]
    /\ UNCHANGED <<fs, loaded, creation, proc, hist>>

\* The outcomes given to a call that does not call Marshal or Unmarshal: what
\* a Serializer would return is of no effect then, and the call is made once.
NotCalled == [mo |-> [data |-> <<>>, err |-> NoError], uo |-> NoError]

\* m calls cm[m].LoadConfig(path, target).
LoadCall(m, path, mo, uo) ==
    /\ cm[m] # NilManager
    /\ \E r \in {LoadConfig(fs, cm[m], path, mo, uo)} :
       /\ r.marshalled = <<>> => mo = NotCalled.mo
       /\ r.unmarshalled = <<>> => uo = NotCalled.uo
       /\ fs' = r.fs
       /\ cm' = [cm EXCEPT ![m] = r.cm]
       /\ loaded' = IF r.err = NoError THEN [loaded EXCEPT ![m] = path] ELSE loaded
       /\ call' = [NoCall EXCEPT !.op = "LoadConfig", !.mgr = m, !.path = path,
                                 !.ret = r.err, !.marshalled = r.marshalled,
                                 !.unmarshalled = r.unmarshalled,
                                 !.again = Again("LoadConfig", m, path)]
       /\ UNCHANGED <<proc, hist>>

Load(m, path, mo, uo) == LoadCall(m, path, mo, uo) /\ UNCHANGED creation

\* Whether the LoadConfig recorded in c took the branch of ensureConfigFile
\* that creates the file, and whether the branch completed.
TookCreation(c) == c.marshalled # <<>> \/ c.ret.Operation = "create config directory"

CompletedCreation(c) ==
    /\ TookCreation(c)
    /\ c.ret.Operation \notin FailedCreate \cup {"create config directory"}

\* The same call, with the creations of default files kept track of.
LoadTracked(m, path, mo, uo) ==
    /\ LoadCall(m, path, mo, uo)
    /\ creation' = IF TookCreation(call')
                   THEN [creation EXCEPT ![path] =
                            IF CompletedCreation(call') THEN "done" ELSE "failed"]
                   ELSE creation

\* m calls cm[m].SaveConfig(config).
Save(m, mo) ==
    /\ cm[m] # NilManager
    /\ \E r \in {SaveConfig(fs, cm[m], mo)} :
       /\ fs' = r.fs
       /\ call' = [NoCall EXCEPT !.op = "SaveConfig", !.mgr = m, !.path = cm[m].filePath,
                                 !.ret = r.err, !.marshalled = <<mo>>,
                                 !.written = r.written,
                                 !.again = Again("SaveConfig", m, cm[m].filePath)]
    /\ UNCHANGED <<cm, loaded, creation, proc, hist>>

\* cm[m].ensureConfigFile(path), called on its own.
Ensure(m, path, mo) ==
    /\ cm[m] # NilManager
    /\ \E r \in {ensureConfigFile(fs, cm[m], path, mo)} :
       /\ fs' = r.fs
       /\ call' = [NoCall EXCEPT !.op = "ensureConfigFile", !.mgr = m, !.path = path,
                                 !.ret = r.err, !.marshalled = r.marshalled,
                                 !.again = Again("ensureConfigFile", m, path)]
    /\ UNCHANGED <<cm, loaded, creation, proc, hist>>

Next ==
    \/ \E m \in Managers, d \in DefaultsValues : New(m, d)
    \/ \E m \in Managers, path \in CallPaths, mo \in MarshalOutcomes,
          uo \in UnmarshalOutcomes : Load(m, path, mo, uo)
    \/ \E m \in Managers, mo \in MarshalOutcomes : Save(m, mo)

Spec == Init /\ [][Next]_vars

NextEnsure ==
    \/ \E m \in Managers, d \in DefaultsValues : New(m, d)
    \/ \E m \in Managers, path \in CallPaths, mo \in MarshalOutcomes : Ensure(m, path, mo)

SpecEnsure == Init /\ [][NextEnsure]_vars

\* The paths the managers of SpecLoads and SpecPair share.
SharedPaths == {DefaultPath, CustomPath}

\* Several managers of one process calling LoadConfig.
NextLoads ==
    \/ \E m \in Pair, d \in DefaultsValues : New(m, d)
    \/ \E m \in Pair, path \in SharedPaths, mo \in MarshalOutcomes,
          uo \in UnmarshalOutcomes : LoadTracked(m, path, mo, uo)

SpecLoads == Init /\ [][NextLoads]_vars

\* Several managers of one process calling LoadConfig and SaveConfig.
NextPair ==
    \/ \E m \in Pair, d \in DefaultsValues : New(m, d)
    \/ \E m \in Pair, path \in SharedPaths, mo \in MarshalOutcomes,
          uo \in UnmarshalOutcomes : Load(m, path, mo, uo)
    \/ \E m \in Pair, mo \in MarshalOutcomes : Save(m, mo)

SpecPair == Init /\ [][NextPair]_vars

\* The calls statement by statement: a step is one call of package os or of
\* a Serializer, with the statements around it, so that the calls of two
\* managers interleave between any two such calls.

\* The frame once the statement named has been executed.
Did(f, step) == [f EXCEPT !.steps = Append(@, step)]

\* The frame when the call returns err.
Return(f, err) == [f EXCEPT !.pc = "idle", !.ret = err]

\* Faulty variant of AfterEnsure: LoadConfig goes on to read whatever
\* ensureConfigFile returned.
AfterEnsureGoesOn(f, err) == [f EXCEPT !.pc = "read"]

\* LoadConfig when ensureConfigFile has returned err: it returns err as it
\* is, or goes on to read the file.
AfterEnsure(f, err) ==
    IF err # NoError THEN Return(f, err) ELSE [f EXCEPT !.pc = "read"]

\* m calls cm[m].LoadConfig(path, target): the check of the path.
CallLoad(m, path) ==
    /\ cm[m] # NilManager
    /\ proc[m].pc = "idle"
    /\ proc' = [proc EXCEPT ![m] =
           LET f == Did([Idle EXCEPT !.op = "LoadConfig", !.path = path], "check path")
           IN  IF path = EmptyPath
               THEN Return(f, Errorf("no path provided"))
               ELSE [f EXCEPT !.pc = "stat"]]
    /\ UNCHANGED <<fs, cm, call, loaded, creation, hist>>

\* ensureConfigFile: os.Stat.
StatFile(m) ==
    /\ proc[m].pc = "stat"
    /\ proc' = [proc EXCEPT ![m] =
           IF Stat(fs, proc[m].path) = NoError
           THEN AfterEnsure(Did(@, "stat"), NoError)
           ELSE [Did(@, "stat") EXCEPT !.pc = "mkdir"]]
    /\ UNCHANGED <<fs, cm, call, loaded, creation, hist>>

\* ensureConfigFile: os.MkdirAll.
MakeDirs(m) ==
    /\ proc[m].pc = "mkdir"
    /\ \E made \in {MkdirAll(fs, Dir(proc[m].path))} :
       /\ fs' = made.fs
       /\ proc' = [proc EXCEPT ![m] =
              IF made.err # NoError
              THEN AfterEnsure(Did(@, "mkdir"),
                               NewError("create config directory", Dir(proc[m].path),
                                        made.err))
              ELSE [Did(@, "mkdir") EXCEPT !.pc = "marshal"]]
    /\ UNCHANGED <<cm, call, loaded, creation, hist>>

\* ensureConfigFile: the defaults' Marshal, which returns mo.
MarshalDefaults(m, mo) ==
    /\ proc[m].pc = "marshal"
    /\ proc' = [proc EXCEPT ![m] =
           IF mo.err # NoError
           THEN AfterEnsure(Did(@, "marshal"),
                            NewError("marshal default config", proc[m].path, mo.err))
           ELSE [Did(@, "marshal") EXCEPT !.pc = "write", !.data = mo.data]]
    /\ UNCHANGED <<fs, cm, call, loaded, creation, hist>>

\* The record of the writes once m has written a file at path.
Wrote(m, op, path) ==
    [defaults |-> IF op = "LoadConfig" THEN hist.defaults \cup {m} ELSE hist.defaults,
     last |-> [mgr |-> m, op |-> op, path |-> path],
     lost |-> \/ hist.lost
              \/ /\ op = "LoadConfig"
                 /\ hist.last.op = "SaveConfig"
                 /\ hist.last.mgr # m
                 /\ hist.last.path = path]

\* ensureConfigFile: os.WriteFile.
WriteDefaults(m) ==
    /\ proc[m].pc = "write"
    /\ \E written \in {WriteFile(fs, proc[m].path, proc[m].data)} :
       /\ fs' = written.fs
       /\ proc' = [proc EXCEPT ![m] =
              AfterEnsure(Did(@, "write"),
                          IF written.err # NoError
                          THEN NewError("create default config", proc[m].path, written.err)
                          ELSE NoError)]
       /\ hist' = IF written.err = NoError
                  THEN Wrote(m, "LoadConfig", proc[m].path)
                  ELSE hist
    /\ UNCHANGED <<cm, call, loaded, creation>>

\* LoadConfig: os.ReadFile.
ReadConfig(m) ==
    /\ proc[m].pc = "read"
    /\ \E read \in {ReadFile(fs, proc[m].path)} :
       proc' = [proc EXCEPT ![m] =
           IF read.err # NoError
           THEN Return(Did(@, "read"), NewError("read config", proc[m].path, read.err))
           ELSE [Did(@, "read") EXCEPT !.pc = "unmarshal", !.data = read.data]]
    /\ UNCHANGED <<fs, cm, call, loaded, creation, hist>>

\* LoadConfig: the target's Unmarshal, which returns uo, and the assignment
\* of cm.filePath.
UnmarshalTarget(m, uo) ==
    /\ proc[m].pc = "unmarshal"
    /\ IF uo # NoError
       THEN /\ proc' = [proc EXCEPT ![m] =
                   Return(Did(@, "unmarshal"),
                          NewError("unmarshal config", proc[m].path, uo))]
            /\ UNCHANGED cm
       ELSE /\ proc' = [proc EXCEPT ![m] =
                   Return(Did(Did(@, "unmarshal"), "record path"), NoError)]
            /\ cm' = [cm EXCEPT ![m].filePath = proc[m].path]
    /\ UNCHANGED <<fs, call, loaded, creation, hist>>

\* m calls cm[m].SaveConfig(config): config.Marshal, which returns mo.
CallSave(m, mo) ==
    /\ cm[m] # NilManager
    /\ proc[m].pc = "idle"
    /\ proc' = [proc EXCEPT ![m] =
           LET f == Did([Idle EXCEPT !.op = "SaveConfig", !.path = cm[m].filePath],
                        "marshal")
           IN  IF mo.err # NoError
               THEN Return(f, NewError("marshal config", EmptyPath, mo.err))
               ELSE [f EXCEPT !.pc = "save", !.data = mo.data]]
    /\ UNCHANGED <<fs, cm, call, loaded, creation, hist>>

\* SaveConfig: os.WriteFile.
WriteConfig(m) ==
    /\ proc[m].pc = "save"
    /\ \E written \in {WriteFile(fs, cm[m].filePath, proc[m].data)} :
       /\ fs' = written.fs
       /\ proc' = [proc EXCEPT ![m] =
              Return(Did(@, "write"),
                     IF written.err # NoError
                     THEN NewError("save config", cm[m].filePath, written.err)
                     ELSE NoError)]
       /\ hist' = IF written.err = NoError
                  THEN Wrote(m, "SaveConfig", cm[m].filePath)
                  ELSE hist
    /\ UNCHANGED <<cm, call, loaded, creation>>

\* The calls of the managers of callers, on the paths given, statement by
\* statement.
Steps(callers, paths) ==
    \/ \E m \in callers, d \in DefaultsValues : New(m, d)
    \/ \E m \in callers, path \in paths : CallLoad(m, path)
    \/ \E m \in callers : StatFile(m)
    \/ \E m \in callers : MakeDirs(m)
    \/ \E m \in callers, mo \in MarshalOutcomes : MarshalDefaults(m, mo)
    \/ \E m \in callers : WriteDefaults(m)
    \/ \E m \in callers : ReadConfig(m)
    \/ \E m \in callers, uo \in UnmarshalOutcomes : UnmarshalTarget(m, uo)
    \/ \E m \in callers, mo \in MarshalOutcomes : CallSave(m, mo)
    \/ \E m \in callers : WriteConfig(m)

\* The calls of one caller alone, statement by statement, on every path.
NextSteps == Steps({1}, CallPaths)

SpecSteps == Init /\ [][NextSteps]_vars

\* Two managers on the default path, in a home directory that holds nothing
\* yet, their statements interleaved.
InitRace == Init /\ fs = Tree(BaseTree)

NextRace == Steps(Pair, {DefaultPath})

SpecRace == InitRace /\ [][NextRace]_vars

\* The environment: the owner of the default configuration directory changes
\* its mode, to read-only (0555) or back to 0755.
Chmod(dir, w) ==
    /\ IsDir(fs, dir)
    /\ fs[dir].w # w
    /\ fs' = Put(fs, dir, DirEntry(w))
    /\ UNCHANGED <<cm, call, loaded, creation, proc, hist>>

\* LoadConfig calls in an environment where the directory's mode changes.
NextRetry ==
    \/ \E m \in Managers, d \in DefaultsValues : New(m, d)
    \/ \E m \in Managers, path \in CallPaths, mo \in MarshalOutcomes,
          uo \in UnmarshalOutcomes : Load(m, path, mo, uo)
    \/ \E w \in BOOLEAN : Chmod(AppDir, w)

SpecRetry == Init /\ [][NextRetry]_vars

-----------------------------------------------------------------------------
(* Properties.  A step that ends with call'.op = "LoadConfig" is a Load    *)
(* step, and likewise for the other methods: in such a step the unprimed   *)
(* variables are the state the call started in, the primed ones the state  *)
(* it returned in.                                                         *)

\* Every proper prefix of the path is a directory.
ParentsAreDirs(tree, path) ==
    \A n \in 1..(Len(path) - 1) : IsDir(tree, SubSeq(path, 1, n))

\* Everything but the entry at path is as it was.
OnlyChanged(old, new, path) ==
    /\ DOMAIN new \ {path} = DOMAIN old \ {path}
    /\ \A q \in DOMAIN old \ {path} : new[q] = old[q]

\* C1: NewConfigManager with an empty AppName fails with an error that
\* renders exactly as "AppName must be specified"; with an AppName and a nil
\* DefaultConfigValues it fails with one that renders exactly as
\* "DefaultConfigValues must be specified".
C1_ValidationMessages ==
    call.op = "NewConfigManager" =>
        /\ call.d.AppName = "" =>
              /\ call.ret # NoError
              /\ ErrorString(call.ret) = "AppName must be specified"
        /\ (call.d.AppName # "" /\ call.d.DefaultConfigValues = NilSerializer) =>
              /\ call.ret # NoError
              /\ ErrorString(call.ret) = "DefaultConfigValues must be specified"

\* C2: when LoadConfig(p, target) with p non-empty reaches the decode step
\* and target.Unmarshal fails with cause c, it returns a ConfigError with
\* Operation "unmarshal config" and Path p that renders exactly as
\* config error: unmarshal config "<p>": <c>.
C2_UnmarshalErrorMessage ==
    (/\ call.op = "LoadConfig"
     /\ call.path # EmptyPath
     /\ Len(call.unmarshalled) = 1
     /\ call.unmarshalled[1].err # NoError) =>
        /\ call.ret.kind = "ConfigError"
        /\ call.ret.Operation = "unmarshal config"
        /\ call.ret.Path = call.path
        /\ ErrorString(call.ret) =
              "config error: unmarshal config " \o Quote(PathString(call.path))
                  \o ": " \o ErrorString(call.unmarshalled[1].err)

C4_EmptyPathLoadsDefault ==
    [][(call'.op = "LoadConfig" /\ call'.path = EmptyPath) =>
          LET path == buildPath(cm[call'.mgr]).path
              made == MkdirAll(fs, Dir(path))
          IN  /\ (/\ ~Exists(fs, path)
                  /\ made.err = NoError
                  /\ made.fs[Dir(path)].w) =>
                     /\ Len(call'.marshalled) = 1
                     /\ call'.marshalled[1].err = NoError =>
                           /\ call'.ret = NoError
                           /\ IsFile(fs', path)
                           /\ fs'[path].data = call'.marshalled[1].data
              /\ (IsFile(fs, path) /\ fs[path].r) =>
                     /\ Len(call'.unmarshalled) = 1
                     /\ call'.unmarshalled[1].err = NoError => call'.ret = NoError]_vars

\* C5: when LoadConfig(p, target), p non-empty and nothing existing at p,
\* returns nil, then the file at p holds exactly the bytes the defaults'
\* Marshal returned, all its parent directories exist, and target.Unmarshal
\* was called exactly once, with exactly those bytes.
C5_FirstLoadWritesDefaults ==
    [][(/\ call'.op = "LoadConfig"
        /\ call'.path # EmptyPath
        /\ ~Exists(fs, call'.path)
        /\ call'.ret = NoError) =>
          /\ Len(call'.marshalled) = 1
          /\ call'.marshalled[1].err = NoError
          /\ IsFile(fs', call'.path)
          /\ fs'[call'.path].data = call'.marshalled[1].data
          /\ ParentsAreDirs(fs', call'.path)
          /\ Len(call'.unmarshalled) = 1
          /\ call'.unmarshalled[1].data = call'.marshalled[1].data]_vars

\* C5 happens: a load has created the default file (Marshal was called, so
\* nothing was at the path) with content that is not empty, and returned nil.
C5_Witness ==
    /\ call.op = "LoadConfig"
    /\ call.path = DefaultPath
    /\ call.ret = NoError
    /\ Len(call.marshalled) = 1
    /\ call.marshalled[1].data # <<>>
    /\ IsFile(fs, call.path)

\* C6, as stated: LoadConfig(p, target) with a file already at the non-empty
\* p never calls the defaults' Marshal, leaves the file system as it was, and
\* calls target.Unmarshal exactly once, with exactly the file's bytes.
C6_ExistingFileAsStated ==
    [][(/\ call'.op = "LoadConfig"
        /\ call'.path # EmptyPath
        /\ IsFile(fs, call'.path)) =>
          /\ call'.marshalled = <<>>
          /\ fs' = fs
          /\ Len(call'.unmarshalled) = 1
          /\ call'.unmarshalled[1].data = fs[call'.path].data]_vars

\* C6, amended: LoadConfig(p, target) with a file already at the non-empty p
\* never calls the defaults' Marshal and leaves the file system as it was;
\* when the file can be read it calls target.Unmarshal exactly once, with
\* exactly the file's bytes, and when it cannot, it does not call Unmarshal
\* and returns a ConfigError of Operation "read config".
C6_ExistingFile ==
    [][(/\ call'.op = "LoadConfig"
        /\ call'.path # EmptyPath
        /\ IsFile(fs, call'.path)) =>
          /\ call'.marshalled = <<>>
          /\ fs' = fs
          /\ fs[call'.path].r =>
                /\ Len(call'.unmarshalled) = 1
                /\ call'.unmarshalled[1].data = fs[call'.path].data
          /\ ~fs[call'.path].r =>
                /\ call'.unmarshalled = <<>>
                /\ call'.ret.kind = "ConfigError"
                /\ call'.ret.Operation = "read config"]_vars

\* C6 happens: a manager of another application has loaded the existing
\* default file of testapp, whose content is not empty, without Marshal.
C6_Witness ==
    /\ call.op = "LoadConfig"
    /\ call.path = DefaultPath
    /\ cm[call.mgr].defaults.AppName # TestApp
    /\ call.marshalled = <<>>
    /\ Len(call.unmarshalled) = 1
    /\ call.unmarshalled[1].data # <<>>
    /\ call.ret = NoError

\* C7: when LoadConfig targets a file that does not exist and whose parent
\* directory exists but permits no new entries, it fails (the defaults'
\* Marshal, if it gets called, not being what fails) with a ConfigError of
\* Operation "create config directory".
C7_ReadOnlyParent ==
    [][(/\ call'.op = "LoadConfig"
        /\ call'.path # EmptyPath
        /\ ~Exists(fs, call'.path)
        /\ IsDir(fs, Dir(call'.path))
        /\ ~fs[Dir(call'.path)].w
        /\ \A i \in 1..Len(call'.marshalled) : call'.marshalled[i].err = NoError) =>
          /\ call'.ret.kind = "ConfigError"
          /\ call'.ret.Operation = "create config directory"]_vars

\* C8: when ensureConfigFile(p) returns nil, a second ensureConfigFile(p)
\* right after it returns nil, does not call the defaults' Marshal, and
\* leaves the file system as the first call left it.
C8_EnsureIdempotent ==
    [][(/\ call.op = "ensureConfigFile"
        /\ call.ret = NoError
        /\ call'.op = "ensureConfigFile"
        /\ call'.mgr = call.mgr
        /\ call'.path = call.path) =>
          /\ call'.ret = NoError
          /\ call'.marshalled = <<>>
          /\ fs' = fs]_vars

\* C8 happens: the second of two calls, the first of which created the file.
C8_Witness ==
    /\ call.op = "ensureConfigFile"
    /\ call.again = "after Marshal"
    /\ call.ret = NoError
    /\ IsFile(fs, call.path)

\* C9: SaveConfig changes the file system only on a manager one of whose
\* LoadConfig calls has returned nil; on a manager whose remembered path is
\* still empty it changes nothing and returns an error, which is, when the
\* write is reached (Marshal having succeeded), a ConfigError of Operation
\* "save config" for the empty path.
C9_NoSaveBeforeLoad ==
    [][call'.op = "SaveConfig" =>
          /\ fs' # fs => loaded[call'.mgr] # EmptyPath
          /\ cm[call'.mgr].filePath = EmptyPath =>
                /\ fs' = fs
                /\ call'.ret # NoError
                /\ call'.ret.kind = "ConfigError"
                /\ call'.marshalled[1].err = NoError =>
                      /\ call'.ret.Operation = "save config"
                      /\ call'.ret.Path = EmptyPath
                      /\ Len(call'.written) = 1]_vars

\* C9 happens: SaveConfig before any load, its write to the empty path failed.
C9_Witness ==
    /\ call.op = "SaveConfig"
    /\ call.path = EmptyPath
    /\ loaded[call.mgr] = EmptyPath
    /\ call.ret.Operation = "save config"

\* C10: a SaveConfig whose Marshal returns b and whose write succeeds makes b
\* the whole content of the file at the path of the manager's most recent
\* LoadConfig that returned nil, and changes no other entry of the file
\* system and not the remembered path.
C10_SaveWritesLoadedPath ==
    [][(call'.op = "SaveConfig" /\ call'.ret = NoError) =>
          LET path == loaded[call'.mgr] IN
          /\ path # EmptyPath
          /\ call'.marshalled[1].err = NoError
          /\ IsFile(fs', path)
          /\ fs'[path].data = call'.marshalled[1].data
          /\ OnlyChanged(fs, fs', path)
          /\ cm' = cm
          /\ loaded' = loaded]_vars

\* C10 happens: a save has put bytes that are not empty into the custom file.
C10_Witness ==
    /\ call.op = "SaveConfig"
    /\ call.ret = NoError
    /\ call.path = CustomPath
    /\ call.marshalled[1].data # <<>>
    /\ fs[CustomPath].data = call.marshalled[1].data

C15_SaveMarshalFailure ==
    [][(call'.op = "SaveConfig" /\ call'.marshalled[1].err # NoError) =>
          /\ call'.ret.kind = "ConfigError"
          /\ call'.ret.Operation = "marshal config"
          /\ call'.ret.Path = EmptyPath
          /\ Unwrap(call'.ret) = ErrorString(call'.marshalled[1].err)
          /\ call'.written = <<>>
          /\ fs' = fs
          /\ cm' = cm]_vars

\* C15 happens: Marshal failed in a SaveConfig on a manager whose remembered
\* file holds content.
C15_Witness ==
    /\ call.op = "SaveConfig"
    /\ call.ret.Operation = "marshal config"
    /\ call.path # EmptyPath
    /\ IsFile(fs, call.path)
    /\ fs[call.path].data # <<>>

\* C17: a NewConfigManager that fails validation (empty AppName, or nil
\* DefaultConfigValues) returns a nil manager and a ConfigError of Operation
\* "initialization", empty Path, whose wrapped cause carries the message;
\* NewConfigManager never touches the file system, and the manager it returns
\* on success has an empty remembered path.
C17_Initialization ==
    [][call'.op = "NewConfigManager" =>
          /\ fs' = fs
          /\ (call'.d.AppName = "" \/ call'.d.DefaultConfigValues = NilSerializer) =>
                /\ cm'[call'.mgr] = NilManager
                /\ call'.ret.kind = "ConfigError"
                /\ call'.ret.Operation = "initialization"
                /\ call'.ret.Path = EmptyPath
                /\ Unwrap(call'.ret) =
                      IF call'.d.AppName = "" THEN "AppName must be specified"
                      ELSE "DefaultConfigValues must be specified"
          /\ (call'.d.AppName # "" /\ call'.d.DefaultConfigValues # NilSerializer) =>
                /\ call'.ret = NoError
                /\ cm'[call'.mgr] # NilManager
                /\ cm'[call'.mgr].defaults = call'.d
                /\ cm'[call'.mgr].filePath = EmptyPath]_vars

\* C17 happens: NewConfigManager has refused a nil DefaultConfigValues.
C17_Witness ==
    /\ call.op = "NewConfigManager"
    /\ call.d.AppName # ""
    /\ call.d.DefaultConfigValues = NilSerializer
    /\ call.ret.Operation = "initialization"
    /\ cm[call.mgr] = NilManager

C18_SaveThenLoad ==
    [][(call'.op = "LoadConfig" /\ call'.again = "after SaveConfig") =>
          /\ loaded[call.mgr] = call'.path
          /\ Len(call'.unmarshalled) = 1
          /\ call'.unmarshalled[1].data = call.marshalled[1].data
          /\ call'.marshalled = <<>>
          /\ fs' = fs
          /\ fs'[call'.path].data = call.marshalled[1].data]_vars

\* C18 happens: the other manager has loaded, on a path where a default file
\* would be empty, the bytes that the manager holding the path has saved.
C18_Witness ==
    /\ call.op = "LoadConfig"
    /\ call.again = "after SaveConfig"
    /\ call.ret = NoError
    /\ \E m \in Pair \ {call.mgr} : loaded[m] = call.path
    /\ loaded[call.mgr] = call.path
    /\ call.unmarshalled[1].data # <<>>

\* s is the beginning of t.
IsPrefix(s, t) == Len(s) <= Len(t) /\ SubSeq(t, 1, Len(s)) = s

\* The statements of a LoadConfig that creates the file, and of one that
\* finds it.
CreateOrder ==
    <<"check path", "stat", "mkdir", "marshal", "write", "read", "unmarshal",
      "record path">>

FoundOrder == <<"check path", "stat", "read", "unmarshal", "record path">>

\* C13: the existence check and the creation in ensureConfigFile are not one
\* atomic step.  A manager that is about to write its default file does so
\* whatever has been written at the path since its os.Stat: when a file is
\* there and can be written, the step replaces its content by the defaults,
\* and when that content was another manager's SaveConfig, it is lost.
C13_CheckThenCreate ==
    [][\A m \in Pair :
          (/\ proc[m].pc = "write"
           /\ proc'[m].pc # "write"
           /\ IsFile(fs, proc[m].path)
           /\ fs[proc[m].path].w) =>
              /\ proc'[m].pc = "read"
              /\ fs'[proc[m].path].data = proc[m].data
              /\ m \in hist'.defaults
              /\ (/\ hist.last.op = "SaveConfig"
                  /\ hist.last.mgr # m
                  /\ hist.last.path = proc[m].path) => hist'.lost]_vars

\* C13 happens: both managers have written the default file at the path, and
\* one of them over what the other had saved there.
C13_Witness ==
    /\ hist.defaults = Pair
    /\ hist.lost
    /\ hist.last.op = "LoadConfig"
    /\ \E m \in Pair \ {hist.last.mgr} : cm[m].filePath = hist.last.path

====
